---- MODULE Spec2Model ----
(***************************************************************************)
(* Model of validator.go (package oauth1): the server-side validation of   *)
(* an OAuth 1 signed request.  One behaviour is one call of                *)
(* ValidateSignature on one request.  Strings the code indexes byte by     *)
(* byte are sequences of one-character strings; parameter names and error  *)
(* messages are TLA+ strings.                                              *)
(***************************************************************************)
EXTENDS Integers, Sequences, FiniteSets, TLC

(***************************************************************************)
(* Bounds of the model.                                                    *)
(***************************************************************************)
\* longest remainder of the Authorization header after the scheme prefix
MaxHeaderRest == 4
\* longest oauth_timestamp value
MaxTsLen == 2
\* longest signature (supplied, and produced by a Signer)
MaxSigLen == 2

(***************************************************************************)
(* Bytes and strings.                                                      *)
(***************************************************************************)
\* the printable ASCII characters, code 32 first (the grave accent, code 96,
\* is written "\\x60")
Ascii ==
  << " ", "!", "\"", "#", "$", "%", "&", "'", "(", ")", "*", "+", ",", "-", ".", "/",
     "0", "1", "2", "3", "4", "5", "6", "7", "8", "9", ":", ";", "<", "=", ">", "?",
     "@", "A", "B", "C", "D", "E", "F", "G", "H", "I", "J", "K", "L", "M", "N", "O",
     "P", "Q", "R", "S", "T", "U", "V", "W", "X", "Y", "Z", "[", "\\", "]", "^", "_",
     "\\x60", "a", "b", "c", "d", "e", "f", "g", "h", "i", "j", "k", "l", "m", "n", "o",
     "p", "q", "r", "s", "t", "u", "v", "w", "x", "y", "z", "{", "|", "}", "~" >>

\* the byte value of a character
Code(c) == 31 + (CHOOSE i \in 1..Len(Ascii) : Ascii[i] = c)

\* the character of a byte value (bytes outside printable ASCII are kept
\* apart from every printable character)
Chr(n) == IF n >= 32 /\ n <= 126 THEN Ascii[n - 31] ELSE "\\x"

\* the Go string made of the bytes of s
RECURSIVE Str(_)
Str(s) == IF s = <<>> THEN "" ELSE Head(s) \o Str(Tail(s))

\* all sequences over S of length at most n
SeqsUpTo(S, n) == UNION {[1..k -> S] : k \in 0..n}

\* a ^ b on bytes
RECURSIVE Xor(_, _)
Xor(a, b) ==
  IF a = 0 /\ b = 0 THEN 0
  ELSE (((a % 2) + (b % 2)) % 2) + 2 * Xor(a \div 2, b \div 2)

\* a | b on bytes
RECURSIVE Or(_, _)
Or(a, b) ==
  IF a = 0 /\ b = 0 THEN 0
  ELSE (IF (a % 2) = 1 \/ (b % 2) = 1 THEN 1 ELSE 0) + 2 * Or(a \div 2, b \div 2)

\* strings.ToLower, per byte
ToLowerChar(c) == IF Code(c) >= 65 /\ Code(c) <= 90 THEN Chr(Code(c) + 32) ELSE c

ToLower(s) == [i \in 1..Len(s) |-> ToLowerChar(s[i])]

\* strings.Split(s, ","): the segments between commas, at least one
RECURSIVE Split(_)
Split(s) ==
  IF \A i \in 1..Len(s) : s[i] # ","
  THEN <<s>>
  ELSE LET i == CHOOSE j \in 1..Len(s) :
                  s[j] = "," /\ \A k \in 1..(j - 1) : s[k] # ","
       IN <<SubSeq(s, 1, i - 1)>> \o Split(SubSeq(s, i + 1, Len(s)))

\* strings.Join(names, ", ")
RECURSIVE Join(_)
Join(names) ==
  IF names = <<>> THEN ""
  ELSE IF Len(names) = 1 THEN names[1]
  ELSE names[1] \o ", " \o Join(Tail(names))

(***************************************************************************)
(* Errors.  An error value is identified by where it was made and by its   *)
(* message.                                                                *)
(***************************************************************************)
nil == [src |-> "nil", msg |-> ""]

\* fmt.Errorf in validator.go
Errorf(msg) == [src |-> "validator", msg |-> msg]

errSignatureMismatch == Errorf("signature mismatch")

errInvalidHeader == Errorf("Invalid Authorization header")

errTokenNotImplemented == Errorf("token signature validation not implemented")

\* errors of the collaborators
errNonceUsed == [src |-> "storage", msg |-> "nonce already used"]

errUnknownClient == [src |-> "storage", msg |-> "unknown client"]

errSign == [src |-> "signer", msg |-> "sign failed"]

errCollect == [src |-> "collectParameters", msg |-> "cannot read parameters"]

(***************************************************************************)
(* The library functions newProviderRequest calls.                         *)
(***************************************************************************)
\* \s of Go's regexp syntax
IsSpace(c) == c \in {" ", "\t", "\n", "\f", "\r"}

\* s without its trailing white space
RECURSIVE TrimRightSpace(_)
TrimRightSpace(s) ==
  IF s # <<>> /\ IsSpace(s[Len(s)]) THEN TrimRightSpace(SubSeq(s, 1, Len(s) - 1)) ELSE s

\* s without its leading white space
RECURSIVE TrimLeftSpace(_)
TrimLeftSpace(s) ==
  IF s # <<>> /\ IsSpace(s[1]) THEN TrimLeftSpace(Tail(s)) ELSE s

NoMatch == [matched |-> FALSE, name |-> <<>>, value |-> <<>>]

\* authorizationHeaderParamPattern.FindStringSubmatch(pair) for the pattern
\* ^\s*([^=]+)="?(\S*?)"?\s*$ : group 1 ends at the first "=", is not empty
\* and loses its leading white space (all of it but one byte when it is
\* nothing else); group 2 is what follows, without trailing white space,
\* without one leading and one trailing quote, and holds no white space.
FindStringSubmatch(pair) ==
  IF \A i \in 1..Len(pair) : pair[i] # "="
  THEN NoMatch
  ELSE LET eq == CHOOSE j \in 1..Len(pair) :
                   pair[j] = "=" /\ \A k \in 1..(j - 1) : pair[k] # "="
           before == SubSeq(pair, 1, eq - 1)
           body == TrimRightSpace(SubSeq(pair, eq + 1, Len(pair)))
           unquotedL == IF body # <<>> /\ body[1] = "\"" THEN Tail(body) ELSE body
           unquoted == IF unquotedL # <<>> /\ unquotedL[Len(unquotedL)] = "\""
                       THEN SubSeq(unquotedL, 1, Len(unquotedL) - 1)
                       ELSE unquotedL
       IN IF before = <<>> \/ \E i \in 1..Len(body) : IsSpace(body[i])
          THEN NoMatch
          ELSE [matched |-> TRUE,
                name |-> IF TrimLeftSpace(before) = <<>>
                         THEN <<before[Len(before)]>>
                         ELSE TrimLeftSpace(before),
                value |-> unquoted]

IsHex(c) == (Code(c) >= 48 /\ Code(c) <= 57) \/ (Code(c) >= 97 /\ Code(c) <= 102)
              \/ (Code(c) >= 65 /\ Code(c) <= 70)

Unhex(c) ==
  IF Code(c) >= 48 /\ Code(c) <= 57 THEN Code(c) - 48
  ELSE IF Code(c) >= 97 /\ Code(c) <= 102 THEN Code(c) - 97 + 10
  ELSE Code(c) - 65 + 10

\* url.PathUnescape(s): every %XX becomes the byte XX; a % that is not
\* followed by two hex digits is an error
RECURSIVE PathUnescape(_)
PathUnescape(s) ==
  IF s = <<>> THEN [value |-> <<>>, err |-> nil]
  ELSE IF s[1] = "%"
  THEN IF Len(s) < 3 \/ ~IsHex(s[2]) \/ ~IsHex(s[3])
       THEN [value |-> <<>>,
             err |-> [src |-> "url",
                      msg |-> "invalid URL escape " \o Str(SubSeq(s, 1, IF Len(s) < 3 THEN Len(s) ELSE 3))]]
       ELSE LET rest == PathUnescape(SubSeq(s, 4, Len(s)))
            IN IF rest.err # nil THEN rest
               ELSE [value |-> <<Chr(16 * Unhex(s[2]) + Unhex(s[3]))>> \o rest.value,
                     err |-> nil]
  ELSE LET rest == PathUnescape(Tail(s))
       IN IF rest.err # nil THEN rest
          ELSE [value |-> <<s[1]>> \o rest.value, err |-> nil]

IsDigit(c) == Code(c) >= 48 /\ Code(c) <= 57

\* An int64 is kept as its sign and the decimal digits of its magnitude,
\* without leading zeros: its 64 bits do not fit the integers of the checker.
Zero64 == [neg |-> FALSE, mag |-> <<"0">>]

\* t > 0 on int64
Positive64(t) == ~t.neg /\ t.mag # <<"0">>

\* digits without leading zeros, one digit at least
RECURSIVE StripZeros(_)
StripZeros(digits) ==
  IF Len(digits) > 1 /\ digits[1] = "0" THEN StripZeros(Tail(digits)) ELSE digits

\* a < b for two magnitudes without leading zeros
DigitsLess(a, b) ==
  \/ Len(a) < Len(b)
  \/ /\ Len(a) = Len(b)
     /\ \E i \in 1..Len(a) :
          /\ Code(a[i]) < Code(b[i])
          /\ \A j \in 1..(i - 1) : a[j] = b[j]

\* ParseInt with bitSize 32: 2^31 - 1
timestampMax32 == <<"2", "1", "4", "7", "4", "8", "3", "6", "4", "7">>

\* the greatest value of bitSize 64 (line 82): 2^63 - 1
timestampMax ==
  <<"9", "2", "2", "3", "3", "7", "2", "0", "3", "6", "8", "5", "4", "7", "7", "5", "8", "0", "7">>

\* the magnitude that follows m
RECURSIVE Successor(_)
Successor(m) ==
  IF m = <<>> THEN <<"1">>
  ELSE IF m[Len(m)] = "9" THEN Successor(SubSeq(m, 1, Len(m) - 1)) \o <<"0">>
  ELSE SubSeq(m, 1, Len(m) - 1) \o <<Chr(Code(m[Len(m)]) + 1)>>

\* the error of strconv.ParseInt for the string s
NumError(s, reason) ==
  [src |-> "strconv", msg |-> "strconv.ParseInt: parsing \"" \o Str(s) \o "\": " \o reason]

\* strconv.ParseInt(s, 10, 64): an optional sign and at least one decimal
\* digit; a value above 2^63 - 1 or below -2^63 is out of range
ParseInt(s) ==
  LET signed == s # <<>> /\ s[1] \in {"+", "-"}
      neg == signed /\ s[1] = "-"
      digits == IF signed THEN Tail(s) ELSE s
  IN IF digits = <<>> \/ \E i \in 1..Len(digits) : ~IsDigit(digits[i])
     THEN [value |-> Zero64, err |-> NumError(s, "invalid syntax")]
     ELSE LET mag == StripZeros(digits)
              limit == IF neg THEN Successor(timestampMax) ELSE timestampMax
          IN IF DigitsLess(limit, mag)
             THEN [value |-> [neg |-> neg, mag |-> limit],
                   err |-> NumError(s, "value out of range")]
             ELSE [value |-> [neg |-> neg /\ mag # <<"0">>, mag |-> mag], err |-> nil]

\* the %v form of an int64
FormatInt(t) == IF t.neg THEN "-" \o Str(t.mag) ELSE Str(t.mag)

(***************************************************************************)
(* Names and values the package defines outside validator.go.              *)
(***************************************************************************)
authorizationPrefix == <<"O", "A", "u", "t", "h", " ">>

oauthSignatureParam == "oauth_signature"

oauthConsumerKeyParam == "oauth_consumer_key"

oauthNonceParam == "oauth_nonce"

oauthTimestampParam == "oauth_timestamp"

oauthSignatureMethodParam == "oauth_signature_method"

oauthTokenParam == "oauth_token"

oauthVersionParam == "oauth_version"

defaultOauthVersion == <<"1", ".", "0">>

(***************************************************************************)
(* Parameter maps: functions from names to values.                         *)
(***************************************************************************)
EmptyMap == [k \in {} |-> <<>>]

\* m[k] = v
Put(m, k, v) == [x \in DOMAIN m \cup {k} |-> IF x = k THEN v ELSE m[x]]

\* Delete that leaves the map as it is
DeleteNothing(m, k) == m

\* delete(m, k)
Delete(m, k) == [x \in DOMAIN m \ {k} |-> m[x]]

(***************************************************************************)
(* newProviderRequest, in its three parts: the Authorization header, the   *)
(* merge with the other parameters, the protocol checks.                   *)
(***************************************************************************)
\* parsePairs passing over a pair that does not match the pattern
RECURSIVE parsePairsSkip(_, _)
parsePairsSkip(pairs, authParams) ==
  IF pairs = <<>> THEN [authParams |-> authParams, err |-> nil]
  ELSE LET match == FindStringSubmatch(Head(pairs))
       IN IF ~match.matched
          THEN parsePairsSkip(Tail(pairs), authParams)
          ELSE LET unescaped == PathUnescape(match.value)
               IN IF unescaped.err = nil
                  THEN parsePairsSkip(Tail(pairs),
                                      Put(authParams, Str(match.name), unescaped.value))
                  ELSE [authParams |-> EmptyMap, err |-> unescaped.err]

\* the loop over the pairs of the header, lines 62-70
RECURSIVE parsePairs(_, _)
parsePairs(pairs, authParams) ==
  IF pairs = <<>> THEN [authParams |-> authParams, err |-> nil]
  ELSE LET match == FindStringSubmatch(Head(pairs))
       IN IF ~match.matched
          THEN [authParams |-> EmptyMap, err |-> errInvalidHeader]
          ELSE LET unescaped == PathUnescape(match.value)
               IN IF unescaped.err = nil
                  THEN parsePairs(Tail(pairs),
                                  Put(authParams, Str(match.name), unescaped.value))
                  ELSE [authParams |-> EmptyMap, err |-> unescaped.err]

\* lines 56-72: the parameters of the Authorization header
parseAuthorizationHeader(authHeader) ==
  IF Len(authHeader) > Len(authorizationPrefix)
  THEN LET authHeaderPrefix == ToLower(SubSeq(authHeader, 1, Len(authorizationPrefix)))
       IN IF authHeaderPrefix = ToLower(authorizationPrefix)
          THEN parsePairs(Split(SubSeq(authHeader, Len(authorizationPrefix) + 1,
                                       Len(authHeader))),
                          EmptyMap)
          ELSE [authParams |-> EmptyMap, err |-> nil]
  ELSE [authParams |-> EmptyMap, err |-> nil]

\* collectParameters(req, authParams): what the merge of the header
\* parameters with the query and body parameters of the request may return.
\* A name carried by both sources with two values takes either value or
\* fails the merge; reading the request may fail as well.
collectParameters(r, authParams) ==
  LET names == DOMAIN authParams \cup DOMAIN r.params
      conflict == \E k \in DOMAIN authParams \cap DOMAIN r.params :
                     authParams[k] # r.params[k]
      preferHeader == [k \in names |->
                         IF k \in DOMAIN authParams THEN authParams[k] ELSE r.params[k]]
      preferOther == [k \in names |->
                        IF k \in DOMAIN r.params THEN r.params[k] ELSE authParams[k]]
  IN {[params |-> EmptyMap, err |-> errCollect]}
       \cup {[params |-> preferHeader, err |-> nil]}
       \cup (IF conflict THEN {[params |-> preferOther, err |-> nil]} ELSE {})

\* the five mandatory parameters, in the order checkMandatoryParams tests them
mandatoryParams ==
  <<oauthSignatureParam, oauthConsumerKeyParam, oauthNonceParam,
    oauthTimestampParam, oauthSignatureMethodParam>>

\* missingFrom stopping at the first missing parameter
RECURSIVE missingFromFirst(_, _, _)
missingFromFirst(params, i, missingParams) ==
  IF i > Len(mandatoryParams) THEN missingParams
  ELSE IF mandatoryParams[i] \notin DOMAIN params
  THEN Append(missingParams, mandatoryParams[i])
  ELSE missingFromFirst(params, i + 1, missingParams)

\* the loop of lines 105-109 from the i-th mandatory parameter on
RECURSIVE missingFrom(_, _, _)
missingFrom(params, i, missingParams) ==
  IF i > Len(mandatoryParams) THEN missingParams
  ELSE missingFrom(params, i + 1,
                   IF mandatoryParams[i] \notin DOMAIN params
                   THEN Append(missingParams, mandatoryParams[i])
                   ELSE missingParams)

\* checkMandatoryParams without the test of oauth_token
checkMandatoryParamsNoToken(params) ==
  LET missingParams == missingFrom(params, 1, <<>>)
  IN IF Len(missingParams) > 0
     THEN Errorf("missing required oauth params " \o Join(missingParams))
     ELSE nil

\* checkMandatoryParams testing oauth_token before the mandatory parameters
checkMandatoryParamsTokenFirst(params) ==
  LET missingParams == missingFrom(params, 1, <<>>)
  IN IF oauthTokenParam \in DOMAIN params
     THEN errTokenNotImplemented
     ELSE IF Len(missingParams) > 0
     THEN Errorf("missing required oauth params " \o Join(missingParams))
     ELSE nil

checkMandatoryParams(params) ==
  LET missingParams == missingFrom(params, 1, <<>>)
  IN IF Len(missingParams) > 0
     THEN Errorf("missing required oauth params " \o Join(missingParams))
     ELSE IF oauthTokenParam \in DOMAIN params
     THEN errTokenNotImplemented
     ELSE nil

\* invalidTimestamp letting zero through
invalidTimestampNegative(timestamp) == timestamp.neg

\* line 85: the test that rejects a parsed timestamp
invalidTimestamp(timestamp) == ~Positive64(timestamp)

\* incorrectVersion without the comparison with the supported version
incorrectVersionAnyValue(allParams) ==
  oauthVersionParam \in DOMAIN allParams

\* line 88: the test that rejects the version parameter
incorrectVersion(allParams) ==
  /\ oauthVersionParam \in DOMAIN allParams
  /\ allParams[oauthVersionParam] # defaultOauthVersion

NoRequest ==
  [oauthParams |-> EmptyMap, signatureToVerify |-> <<>>, signatureMethod |-> <<>>,
   timestamp |-> Zero64, clientKey |-> <<>>, nonce |-> <<>>]

\* lines 77-100: the protocol checks on the merged parameters and the
\* providerRequest they make
buildProviderRequest(merged) ==
  LET err == checkMandatoryParams(merged)
  IN IF err # nil THEN [preq |-> NoRequest, err |-> err]
     ELSE LET sig == merged[oauthSignatureParam]
              allParams == Delete(merged, oauthSignatureParam)
              parsed == ParseInt(allParams[oauthTimestampParam])
          IN IF parsed.err # nil
             THEN [preq |-> NoRequest,
                   err |-> Errorf("unable to parse timestamp: " \o parsed.err.msg)]
             ELSE IF invalidTimestamp(parsed.value)
             THEN [preq |-> NoRequest,
                   err |-> Errorf("invalid timestamp " \o FormatInt(parsed.value))]
             ELSE IF incorrectVersion(allParams)
             THEN [preq |-> NoRequest,
                   err |-> Errorf("incorrect oauth version "
                                    \o Str(allParams[oauthVersionParam]))]
             ELSE [preq |-> [oauthParams |-> allParams,
                             signatureToVerify |-> sig,
                             signatureMethod |-> allParams[oauthSignatureMethodParam],
                             timestamp |-> parsed.value,
                             clientKey |-> allParams[oauthConsumerKeyParam],
                             nonce |-> allParams[oauthNonceParam]],
                   err |-> nil]

(***************************************************************************)
(* The Signer and checkSignature.                                          *)
(***************************************************************************)
\* the nil Signer
NilSigner == [id |-> "nil", out |-> <<>>, err |-> nil]

\* a Signer is known by what its Sign returns for the request at hand
SigChars == {"a", "b"}

SigValues == SeqsUpTo(SigChars, MaxSigLen)

Signers ==
  {[id |-> "signer", out |-> o, err |-> nil] : o \in SigValues}
    \cup {[id |-> "signer", out |-> <<>>, err |-> errSign]}

\* signatureBase(r.req, r.oauthParams): the base string, known by the
\* parameters it is computed from
signatureBase(params) == [params |-> params]

\* signer.Sign("", base)
Sign(s, base) == [signature |-> s.out, err |-> s.err]

\* loopStep reading the first byte of sigToVerify in every round
loopStepFirstByte(result, r, sigToVerify, i) ==
  Or(result, Xor(Code(r), Code(sigToVerify[1])))

\* loopStep accumulating with ^ instead of |
loopStepXorAccum(result, r, sigToVerify, i) ==
  Xor(result, Xor(Code(r), Code(sigToVerify[i])))

\* one round of the loop of lines 138-140
loopStep(result, r, sigToVerify, i) == Or(result, Xor(Code(r), Code(sigToVerify[i])))

\* compareLoop leaving the loop at the first difference
RECURSIVE compareLoopEarlyExit(_, _, _, _)
compareLoopEarlyExit(signature, sigToVerify, i, result) ==
  IF i > Len(signature) \/ result # 0 THEN [result |-> result, rounds |-> i - 1]
  ELSE compareLoopEarlyExit(signature, sigToVerify, i + 1,
                            loopStep(result, signature[i], sigToVerify, i))

\* the loop of lines 137-140 from index i on: the accumulated result and the
\* number of rounds made
RECURSIVE compareLoop(_, _, _, _)
compareLoop(signature, sigToVerify, i, result) ==
  IF i > Len(signature) THEN [result |-> result, rounds |-> i - 1]
  ELSE compareLoop(signature, sigToVerify, i + 1,
                   loopStep(result, signature[i], sigToVerify, i))

\* an operation a call performs, as the call record keeps it
Op(name, arg) == [op |-> name, arg |-> <<arg>>]

\* absentSigner computing the signature base before it reports the mismatch
absentSignerAfterBase(r) ==
  [err |-> errSignatureMismatch, ops |-> <<Op("signatureBase", r.oauthParams)>>]

\* absentSigner with an error of its own
absentSignerOwnError(r) == [err |-> Errorf("no signer"), ops |-> <<>>]

\* lines 122-124: what checkSignature does with a nil Signer
absentSigner(r) == [err |-> errSignatureMismatch, ops |-> <<>>]

\* r.checkSignature(signer): the error returned and the operations performed
checkSignature(r, s) ==
  IF s = NilSigner
  THEN absentSigner(r)
  ELSE LET base == signatureBase(r.oauthParams)
           signed == Sign(s, base)
           work == <<Op("signatureBase", r.oauthParams), Op("Sign", base)>>
       IN IF signed.err # nil
          THEN [err |-> signed.err, ops |-> work]
          ELSE IF Len(r.signatureToVerify) # Len(signed.signature)
          THEN [err |-> errSignatureMismatch,
                ops |-> Append(work, Op("len", <<Len(r.signatureToVerify), Len(signed.signature)>>))]
          ELSE LET loop == compareLoop(signed.signature, r.signatureToVerify, 1, 0)
                   done == work \o <<Op("len", <<Len(r.signatureToVerify), Len(signed.signature)>>),
                                     Op("loop", loop.rounds)>>
               IN IF loop.result # 0
                  THEN [err |-> errSignatureMismatch, ops |-> done]
                  ELSE [err |-> nil, ops |-> done]

\* returnValue hiding the client error behind the generic mismatch
returnValueGeneric(invalidClientErr, invalidSignatureErr) ==
  IF invalidClientErr # nil THEN errSignatureMismatch ELSE invalidSignatureErr

\* returnValue without the test of the client error
returnValueSignatureOnly(invalidClientErr, invalidSignatureErr) == invalidSignatureErr

\* returnValue that looks at the signature first
returnValueSignatureFirst(invalidClientErr, invalidSignatureErr) ==
  IF invalidSignatureErr # nil THEN invalidSignatureErr ELSE invalidClientErr

\* lines 161-164 of ValidateSignature
returnValue(invalidClientErr, invalidSignatureErr) ==
  IF invalidClientErr # nil THEN invalidClientErr ELSE invalidSignatureErr

(***************************************************************************)
(* The requests and collaborator answers of the model.                     *)
(***************************************************************************)
\* bytes of the remainder of an Authorization header
HeaderChars == {"2", "=", ",", "\"", " ", "%"}

\* the scheme prefix as written and in lower case
SchemePrefixes == {authorizationPrefix, ToLower(authorizationPrefix)}

\* no header, a header shorter than the prefix, a header of another scheme
OtherHeaders ==
  {<<>>, <<"O", "A", "u", "t", "h">>, <<"B", "a", "s", "i", "c", " ", "2", "=", "2">>}

\* the headers above, and the scheme prefix followed by at most n bytes
Headers(n) ==
  OtherHeaders \cup {p \o rest : p \in SchemePrefixes, rest \in SeqsUpTo(HeaderChars, n)}

\* bytes of a timestamp value
TsChars == {"0", "1", "-", "+", "x"}

TsValues == SeqsUpTo(TsChars, MaxTsLen)

VersionValues == {defaultOauthVersion, <<"2", ".", "0">>}

\* no version parameter, or one of the values
VersionChoices == {{}} \cup {{v} : v \in VersionValues}

ParamNames == {mandatoryParams[i] : i \in 1..Len(mandatoryParams)} \cup {oauthTokenParam}

\* the query and body parameters of a request that carries the names in
\* present, with the given signature, timestamp and version
ParamsOf(present, sig, ts, versions) ==
  [k \in present \cup {oauthVersionParam : v \in versions} |->
     IF k = oauthSignatureParam THEN sig
     ELSE IF k = oauthTimestampParam THEN ts
     ELSE IF k = oauthVersionParam THEN CHOOSE v \in versions : TRUE
     ELSE IF k = oauthConsumerKeyParam THEN <<"c", "k">>
     ELSE IF k = oauthNonceParam THEN <<"n">>
     ELSE IF k = oauthSignatureMethodParam THEN <<"H", "M", "A", "C">>
     ELSE <<"t">>]

\* any subset of the parameters, with any timestamp and version
GuardParamMaps ==
  {ParamsOf(present, <<"a", "b">>, ts, versions) :
     present \in SUBSET ParamNames, ts \in TsValues, versions \in VersionChoices}

\* every mandatory parameter, with any signature and version
SignedParamMaps ==
  {ParamsOf(ParamNames \ {oauthTokenParam}, sig, <<"1">>, versions) :
     sig \in SigValues, versions \in VersionChoices}

\* the decimal digits of 2^63 - 1
TwoTo63Minus1 ==
  <<"9", "2", "2", "3", "3", "7", "2", "0", "3", "6", "8", "5", "4", "7", "7", "5", "8", "0", "7">>

\* timestamps at the limits of int64: 2^63 - 1, 2^63, -2^63, -2^63 - 1, 2^64,
\* and 2^63 - 1 and 2^63 written with a leading zero and a sign
LongTsValues ==
  {TwoTo63Minus1, Successor(TwoTo63Minus1), <<"-">> \o Successor(TwoTo63Minus1),
   <<"-">> \o Successor(Successor(TwoTo63Minus1)),
   <<"1", "8", "4", "4", "6", "7", "4", "4", "0", "7", "3", "7", "0", "9", "5", "5", "1", "6", "1", "6">>,
   <<"0">> \o TwoTo63Minus1, <<"+">> \o TwoTo63Minus1,
   <<"+", "0">> \o Successor(TwoTo63Minus1)}

\* every mandatory parameter, with a timestamp at the limits and any version
LongTsParamMaps ==
  {ParamsOf(ParamNames \ {oauthTokenParam}, <<"a", "b">>, ts, versions) :
     ts \in LongTsValues, versions \in VersionChoices}

\* a request with every mandatory parameter and nothing else
CompleteParams ==
  ParamsOf(ParamNames \ {oauthTokenParam}, <<"a", "b">>, <<"1">>, {})

\* requests without Authorization header and any parameters, requests with
\* any header and no other parameter, and requests with a header (one byte
\* shorter) and every mandatory parameter
Requests ==
  {[header |-> <<>>, params |-> m] :
     m \in GuardParamMaps \cup SignedParamMaps \cup LongTsParamMaps}
    \cup {[header |-> h, params |-> EmptyMap] : h \in Headers(MaxHeaderRest)}
    \cup {[header |-> h, params |-> CompleteParams] : h \in Headers(MaxHeaderRest - 1)}

NonceAnswers == {nil, errNonceUsed}

ClientAnswers == {nil, errUnknownClient}

(***************************************************************************)
(* One call of ValidateSignature.                                          *)
(***************************************************************************)
VARIABLES
  req,                \* the request: Authorization header, other parameters
  pc,                 \* where the call is
  calls,              \* the operations the call has performed, in order
  headerErr,          \* error of the Authorization header, nil if none
  merged,             \* what collectParameters returned
  preq,               \* the providerRequest
  nonceErr,           \* what ValidateNonce returned
  signer,             \* the Signer GetSigner returned
  invalidClient,      \* the error GetSigner returned
  signErr,            \* what Sign returned as error
  invalidSignature,   \* what checkSignature returned
  ret                 \* what ValidateSignature returned

vars ==
  <<req, pc, calls, headerErr, merged, preq, nonceErr, signer, invalidClient,
    signErr, invalidSignature, ret>>

NotCalled == [params |-> EmptyMap, err |-> [src |-> "none", msg |-> "not called"]]

Init ==
  /\ req \in Requests
  /\ pc = "start"
  /\ calls = <<>>
  /\ headerErr = nil
  /\ merged = NotCalled
  /\ preq = NoRequest
  /\ nonceErr = nil
  /\ signer = NilSigner
  /\ invalidClient = nil
  /\ signErr = nil
  /\ invalidSignature = nil
  /\ ret = nil

\* lines 150-153 with newProviderRequest, lines 55-101: the header is parsed,
\* the parameters are merged and checked; any error is returned at once
NewProviderRequest ==
  /\ pc = "start"
  /\ LET parsed == parseAuthorizationHeader(req.header)
     IN /\ headerErr' = parsed.err
        /\ IF parsed.err # nil
           THEN /\ ret' = parsed.err
                /\ pc' = "done"
                /\ UNCHANGED <<calls, merged, preq>>
           ELSE \E collected \in collectParameters(req, parsed.authParams) :
                  /\ merged' = collected
                  /\ calls' = Append(calls, Op("collectParameters", parsed.authParams))
                  /\ IF collected.err # nil
                     THEN /\ ret' = collected.err
                          /\ pc' = "done"
                          /\ UNCHANGED preq
                     ELSE LET built == buildProviderRequest(collected.params)
                          IN /\ preq' = built.preq
                             /\ IF built.err # nil
                                THEN ret' = built.err /\ pc' = "done"
                                ELSE ret' = ret /\ pc' = "validateNonce"
  /\ UNCHANGED <<req, nonceErr, signer, invalidClient, signErr, invalidSignature>>

\* ValidateNonce whose error is kept for later instead of returned
ValidateNonceDeferred ==
  /\ pc = "validateNonce"
  /\ \E answer \in NonceAnswers :
       /\ nonceErr' = answer
       /\ calls' = Append(calls, Op("ValidateNonce",
                                    <<preq.clientKey, preq.nonce, preq.timestamp>>))
  /\ pc' = "getSigner"
  /\ UNCHANGED <<req, headerErr, merged, preq, signer, invalidClient, signErr,
                 invalidSignature, ret>>

\* ValidateNonce called with the nonce and the client key exchanged
ValidateNonceSwapped ==
  /\ pc = "validateNonce"
  /\ \E answer \in NonceAnswers :
       /\ nonceErr' = answer
       /\ calls' = Append(calls, Op("ValidateNonce",
                                    <<preq.nonce, preq.clientKey, preq.timestamp>>))
       /\ IF answer # nil
          THEN ret' = answer /\ pc' = "done"
          ELSE ret' = ret /\ pc' = "getSigner"
  /\ UNCHANGED <<req, headerErr, merged, preq, signer, invalidClient, signErr,
                 invalidSignature>>

\* lines 154-156: the nonce store answers; its error is returned at once
ValidateNonce ==
  /\ pc = "validateNonce"
  /\ \E answer \in NonceAnswers :
       /\ nonceErr' = answer
       /\ calls' = Append(calls, Op("ValidateNonce",
                                    <<preq.clientKey, preq.nonce, preq.timestamp>>))
       /\ IF answer # nil
          THEN ret' = answer /\ pc' = "done"
          ELSE ret' = ret /\ pc' = "getSigner"
  /\ UNCHANGED <<req, headerErr, merged, preq, signer, invalidClient, signErr,
                 invalidSignature>>

\* line 157: the client store answers with a Signer, nil or not, and an error,
\* nil or not
GetSigner ==
  /\ pc = "getSigner"
  /\ \E s \in Signers \cup {NilSigner}, answer \in ClientAnswers :
       /\ signer' = s
       /\ invalidClient' = answer
       /\ calls' = Append(calls, Op("GetSigner", <<preq.clientKey, preq.signatureMethod>>))
  /\ pc' = "checkSignature"
  /\ UNCHANGED <<req, headerErr, merged, preq, nonceErr, signErr, invalidSignature, ret>>

\* CheckSignature skipped for a client already known to be invalid
CheckSignatureSkipInvalid ==
  /\ pc = "checkSignature"
  /\ LET checked == IF invalidClient # nil
                    THEN [err |-> errSignatureMismatch, ops |-> <<>>]
                    ELSE checkSignature(preq, signer)
     IN /\ invalidSignature' = checked.err
        /\ calls' = calls \o checked.ops
        /\ signErr' = IF signer = NilSigner \/ invalidClient # nil THEN nil
                      ELSE Sign(signer, signatureBase(preq.oauthParams)).err
  /\ pc' = "return"
  /\ UNCHANGED <<req, headerErr, merged, preq, nonceErr, signer, invalidClient, ret>>

\* line 160
CheckSignature ==
  /\ pc = "checkSignature"
  /\ LET checked == checkSignature(preq, signer)
     IN /\ invalidSignature' = checked.err
        /\ calls' = calls \o checked.ops
        /\ signErr' = IF signer = NilSigner THEN nil
                      ELSE Sign(signer, signatureBase(preq.oauthParams)).err
  /\ pc' = "return"
  /\ UNCHANGED <<req, headerErr, merged, preq, nonceErr, signer, invalidClient, ret>>

\* lines 161-164
Return ==
  /\ pc = "return"
  /\ ret' = returnValue(invalidClient, invalidSignature)
  /\ pc' = "done"
  /\ UNCHANGED <<req, calls, headerErr, merged, preq, nonceErr, signer, invalidClient,
                 signErr, invalidSignature>>

Next == NewProviderRequest \/ ValidateNonce \/ GetSigner \/ CheckSignature \/ Return

Spec == Init /\ [][Next]_vars

\* the names of the operations performed so far
OpNames == [i \in 1..Len(calls) |-> calls[i].op]

TypeOK ==
  /\ pc \in {"start", "validateNonce", "getSigner", "checkSignature", "return", "done"}
  /\ signer \in Signers \cup {NilSigner}
  /\ nonceErr \in NonceAnswers
  /\ invalidClient \in ClientAnswers

(***************************************************************************)
(* Properties.                                                             *)
(***************************************************************************)
\* the call has performed the operation
Called(name) == \E i \in 1..Len(calls) : calls[i].op = name

\* newProviderRequest returned a providerRequest
Constructed == pc # "start" /\ Positive64(preq.timestamp)

\* collectParameters returned the merged parameters
Merged == merged.err = nil

\* none of ValidateNonce, GetSigner and Sign has been invoked
NoCollaboratorCalled ==
  ~Called("ValidateNonce") /\ ~Called("GetSigner") /\ ~Called("Sign")

\* C1: a constructed request whose nonce is accepted, whose client resolves
\* to a non-nil Signer without error and whose supplied signature is byte
\* for byte what Sign returns without error is accepted: the call returns nil.
C1_ValidRequestAccepted ==
  (/\ pc = "done"
   /\ Constructed
   /\ Called("ValidateNonce") /\ nonceErr = nil
   /\ Called("GetSigner") /\ signer # NilSigner /\ invalidClient = nil
   /\ signer.err = nil
   /\ preq.signatureToVerify = signer.out)
  => ret = nil

C1_Witness ==
  /\ pc = "done"
  /\ Constructed
  /\ Called("ValidateNonce") /\ nonceErr = nil
  /\ Called("GetSigner") /\ signer # NilSigner /\ invalidClient = nil
  /\ signer.err = nil
  /\ Len(signer.out) = MaxSigLen
  /\ preq.signatureToVerify = signer.out
  /\ ret = nil

\* C2: when ValidateNonce returns an error the call is over at once and
\* returns that very error; GetSigner and Sign are not invoked.
C2_NonceErrorReturnedAtOnce ==
  nonceErr # nil =>
    /\ pc = "done"
    /\ ret = nonceErr
    /\ OpNames = <<"collectParameters", "ValidateNonce">>

C2_Witness ==
  /\ pc = "done"
  /\ Constructed
  /\ nonceErr = errNonceUsed
  /\ ret = errNonceUsed

\* C3 as stated: with the nonce accepted and an error from GetSigner, the
\* call returns the generic "signature mismatch" value.
C3_Original ==
  (pc = "done" /\ nonceErr = nil /\ Called("GetSigner") /\ invalidClient # nil)
  => ret = errSignatureMismatch

\* C3 amended: with the nonce accepted and an error from GetSigner, the call
\* returns the error GetSigner returned, unchanged, whatever the signature
\* verification found; it is not replaced by the generic mismatch value.
C3_ClientErrorReturned ==
  (pc = "done" /\ nonceErr = nil /\ Called("GetSigner") /\ invalidClient # nil)
  => (ret = invalidClient /\ ret.src = "storage")

C3_Witness ==
  /\ pc = "done"
  /\ nonceErr = nil
  /\ Called("GetSigner")
  /\ invalidClient = errUnknownClient
  /\ invalidSignature = errSignatureMismatch
  /\ ret = errUnknownClient

\* the operations performed after GetSigner returned
VerificationWork == [i \in 1..(Len(calls) - 3) |-> calls[i + 3]]

\* what signature verification does for a supplied signature and a non-nil
\* Signer: the base, the Sign call and, if Sign succeeds, the length test
\* and, for equal lengths, one round of the loop per byte
WorkFor(sigToVerify, s, params) ==
  <<Op("signatureBase", params), Op("Sign", [params |-> params])>>
    \o (IF s.err # nil THEN <<>>
        ELSE <<Op("len", <<Len(sigToVerify), Len(s.out)>>)>>
               \o (IF Len(sigToVerify) = Len(s.out)
                   THEN <<Op("loop", Len(s.out))>>
                   ELSE <<>>))

\* C4: once the nonce is accepted and GetSigner returned a non-nil Signer,
\* the operations of signature verification are determined by the request
\* and that Signer alone: two calls that differ only in the error GetSigner
\* returned perform the same sequence of operations.
C4_WorkIndependentOfClientValidity ==
  (pc = "done" /\ Called("GetSigner") /\ signer # NilSigner)
  => VerificationWork = WorkFor(preq.signatureToVerify, signer, preq.oauthParams)

C4_Witness ==
  /\ pc = "done"
  /\ Called("GetSigner")
  /\ signer # NilSigner
  /\ signer.err = nil
  /\ invalidClient # nil
  /\ Len(signer.out) = MaxSigLen
  /\ Called("loop")

\* the mandatory parameters a map lacks, in the order of the list
MissingOf(params) == SelectSeq(mandatoryParams, LAMBDA name : name \notin DOMAIN params)

\* C5: when the merged parameters lack mandatory parameters, the call fails
\* with one error that lists exactly the missing ones.
C5_AllMissingNamed ==
  (pc # "start" /\ Merged /\ MissingOf(merged.params) # <<>>)
  => /\ pc = "done"
     /\ ret = Errorf("missing required oauth params " \o Join(MissingOf(merged.params)))

C5_Witness ==
  /\ pc = "done"
  /\ Merged
  /\ MissingOf(merged.params) = <<oauthSignatureParam, oauthNonceParam, oauthSignatureMethodParam>>
  /\ ret.msg = "missing required oauth params oauth_signature, oauth_nonce, oauth_signature_method"

\* C6: parameters with all five mandatory names and oauth_token are
\* rejected with the "not implemented" error, whatever their values, and
\* no collaborator is invoked.
C6_TokenRejected ==
  (pc # "start" /\ Merged /\ MissingOf(merged.params) = <<>>
     /\ oauthTokenParam \in DOMAIN merged.params)
  => /\ pc = "done"
     /\ ret = errTokenNotImplemented
     /\ NoCollaboratorCalled

C6_Witness ==
  /\ pc = "done"
  /\ Merged
  /\ MissingOf(merged.params) = <<>>
  /\ oauthTokenParam \in DOMAIN merged.params
  /\ ParseInt(merged.params[oauthTimestampParam]).err = nil
  /\ Positive64(ParseInt(merged.params[oauthTimestampParam]).value)
  /\ oauthVersionParam \notin DOMAIN merged.params
  /\ ret = errTokenNotImplemented

\* the timestamp value is not a number, or a number that is not positive
BadTimestamp(ts) == ParseInt(ts).err # nil \/ ~Positive64(ParseInt(ts).value)

\* C7: a request whose timestamp is not numeric or not positive fails, and
\* ValidateNonce, GetSigner and Sign are not invoked.
C7_BadTimestampFailsEarly ==
  (pc # "start" /\ Merged /\ oauthTimestampParam \in DOMAIN merged.params
     /\ BadTimestamp(merged.params[oauthTimestampParam]))
  => /\ pc = "done"
     /\ ret # nil
     /\ NoCollaboratorCalled

C7_Witness ==
  /\ pc = "done"
  /\ Merged
  /\ MissingOf(merged.params) = <<>>
  /\ oauthTokenParam \notin DOMAIN merged.params
  /\ merged.params[oauthTimestampParam] = <<"0">>
  /\ ret = Errorf("invalid timestamp 0")
  /\ NoCollaboratorCalled

\* the header starts with the scheme prefix, in any case
HasSchemePrefix(h) ==
  /\ Len(h) >= Len(authorizationPrefix)
  /\ ToLower(SubSeq(h, 1, Len(authorizationPrefix))) = ToLower(authorizationPrefix)

\* the remainder of the header, split on commas
Segments(h) == Split(SubSeq(h, Len(authorizationPrefix) + 1, Len(h)))

\* the segment does not have the shape name="value"
Malformed(seg) == ~FindStringSubmatch(seg).matched

\* the segment has the shape, and a value that cannot be percent-decoded
Undecodable(seg) ==
  /\ FindStringSubmatch(seg).matched
  /\ PathUnescape(FindStringSubmatch(seg).value).err # nil

\* C8 as stated: a header with the scheme prefix and a remainder with a
\* malformed segment fails with "Invalid Authorization header", whatever the
\* other segments, and collectParameters is not invoked.
C8_Original ==
  (/\ pc # "start"
   /\ HasSchemePrefix(req.header)
   /\ Len(req.header) > Len(authorizationPrefix)
   /\ \E i \in 1..Len(Segments(req.header)) : Malformed(Segments(req.header)[i]))
  => /\ pc = "done"
     /\ ret = errInvalidHeader
     /\ ~Called("collectParameters")

\* C8 amended: a header with the scheme prefix and a non-empty remainder
\* that has a malformed segment fails and collectParameters is not invoked;
\* the error is "Invalid Authorization header" unless a segment before the
\* first malformed one has a value that cannot be percent-decoded, and then
\* it is the error of that decoding.
C8_MalformedHeaderRejected ==
  (/\ pc # "start"
   /\ HasSchemePrefix(req.header)
   /\ Len(req.header) > Len(authorizationPrefix)
   /\ \E i \in 1..Len(Segments(req.header)) : Malformed(Segments(req.header)[i]))
  => LET segs == Segments(req.header)
         first == CHOOSE i \in 1..Len(segs) :
                    Malformed(segs[i]) /\ \A j \in 1..(i - 1) : ~Malformed(segs[j])
     IN /\ pc = "done"
        /\ ~Called("collectParameters")
        /\ IF \E j \in 1..(first - 1) : Undecodable(segs[j])
           THEN ret.src = "url"
           ELSE ret = errInvalidHeader

C8_Witness ==
  /\ pc = "done"
  /\ HasSchemePrefix(req.header)
  /\ Len(Segments(req.header)) = 2
  /\ ~Malformed(Segments(req.header)[1])
  /\ ~Undecodable(Segments(req.header)[1])
  /\ Segments(req.header)[2] = <<"2">>
  /\ ret = errInvalidHeader
  /\ calls = <<>>

\* C9: with a non-nil Signer whose Sign succeeds, signatures of different
\* lengths are a mismatch found without entering the loop, and signatures
\* of equal length pass if and only if they are equal at every byte.
C9_LengthThenContent ==
  (pc \in {"return", "done"} /\ Called("Sign") /\ signer.err = nil)
  => IF Len(preq.signatureToVerify) # Len(signer.out)
     THEN invalidSignature = errSignatureMismatch /\ ~Called("loop")
     ELSE /\ Called("loop")
          /\ invalidSignature \in {nil, errSignatureMismatch}
          /\ invalidSignature = nil <=> preq.signatureToVerify = signer.out

C9_Witness ==
  /\ pc = "return"
  /\ Called("Sign")
  /\ signer.err = nil
  /\ Len(signer.out) = MaxSigLen
  /\ Len(preq.signatureToVerify) = MaxSigLen
  /\ Cardinality({i \in 1..MaxSigLen : preq.signatureToVerify[i] # signer.out[i]}) = 1
  /\ invalidSignature = errSignatureMismatch

\* C10: the call returns nil only if the request was constructed, the nonce
\* was accepted, GetSigner returned a non-nil Signer and no error, Sign
\* returned no error and the supplied signature equals the signature made.
C10_AcceptedOnlyIfAllChecksPassed ==
  (pc = "done" /\ ret = nil)
  => /\ headerErr = nil
     /\ Merged
     /\ checkMandatoryParams(merged.params) = nil
     /\ Constructed
     /\ Called("ValidateNonce") /\ nonceErr = nil
     /\ Called("GetSigner") /\ invalidClient = nil /\ signer # NilSigner
     /\ Called("Sign") /\ signErr = nil /\ signer.err = nil
     /\ preq.signatureToVerify = signer.out

C10_Witness ==
  /\ pc = "done"
  /\ ret = nil
  /\ HasSchemePrefix(req.header)
  /\ DOMAIN merged.params # DOMAIN req.params
  /\ OpNames = <<"collectParameters", "ValidateNonce", "GetSigner", "signatureBase",
                 "Sign", "len", "loop">>

\* checkSignature has returned
Checked == pc \in {"return", "done"} /\ Called("GetSigner")

\* C11: after an accepted nonce, an error of GetSigner is what the call
\* returns, whatever signature verification found; without such an error the
\* call returns what signature verification found, nil for a signature that
\* verifies.
C11_ReturnPrecedence ==
  (pc = "done" /\ Called("GetSigner"))
  => /\ invalidClient # nil => ret = invalidClient
     /\ invalidClient = nil => ret = invalidSignature
     /\ (invalidClient = nil /\ signer # NilSigner /\ signer.err = nil
           /\ preq.signatureToVerify = signer.out) => ret = nil

C11_Witness ==
  /\ pc = "done"
  /\ Called("GetSigner")
  /\ invalidClient = errUnknownClient
  /\ invalidSignature = nil
  /\ Called("loop")
  /\ ret = errUnknownClient

\* C12 as stated: GetSigner is invoked in every call whose providerRequest
\* was built, whether ValidateNonce failed or not.
C12_Original == (pc = "done" /\ Constructed) => Called("GetSigner")

\* C12 amended: GetSigner is invoked in every call whose providerRequest was
\* built and whose nonce was accepted, and in no other: an error of
\* ValidateNonce ends the call before GetSigner.
C12_GetSignerAfterAcceptedNonce ==
  (pc = "done" /\ Constructed)
  => /\ Called("ValidateNonce")
     /\ Called("GetSigner") <=> nonceErr = nil

C12_Witness ==
  /\ pc = "done"
  /\ Constructed
  /\ nonceErr # nil
  /\ ~Called("GetSigner")
  /\ Len(calls) = 2

\* C13 as stated: every failure of checkSignature is the generic
\* "signature mismatch" value.
C13_Original ==
  (Checked /\ invalidSignature # nil) => invalidSignature = errSignatureMismatch

\* C13 amended: a nil Signer, a length difference and a content difference
\* all give the generic "signature mismatch" value; an error returned by
\* Sign is returned as it is.
C13_FailureValues ==
  (Checked /\ invalidSignature # nil)
  => IF signer # NilSigner /\ signer.err # nil
     THEN invalidSignature = signer.err /\ invalidSignature # errSignatureMismatch
     ELSE invalidSignature = errSignatureMismatch

C13_Witness ==
  /\ Checked
  /\ signer # NilSigner
  /\ signer.err = errSign
  /\ invalidSignature = errSign
  /\ OpNames = <<"collectParameters", "ValidateNonce", "GetSigner", "signatureBase", "Sign">>

\* C14 as stated: with a nil Signer checkSignature still computes the
\* signature base before it reports the mismatch.
C14_Original ==
  (Checked /\ signer = NilSigner) => Called("signatureBase")

\* C14 amended: with a nil Signer checkSignature reports the generic
\* mismatch at once: the signature base is not computed, Sign is not called
\* and nothing is compared.
C14_NilSignerShortCircuits ==
  (Checked /\ signer = NilSigner)
  => /\ invalidSignature = errSignatureMismatch
     /\ OpNames = <<"collectParameters", "ValidateNonce", "GetSigner">>

C14_Witness ==
  /\ pc = "done"
  /\ Called("GetSigner")
  /\ signer = NilSigner
  /\ invalidClient # nil
  /\ invalidSignature = errSignatureMismatch
  /\ Len(calls) = 3

\* the OR of the XORs of the first n byte pairs of a and b
RECURSIVE Accumulated(_, _, _)
Accumulated(a, b, n) ==
  IF n = 0 THEN 0 ELSE Or(Accumulated(a, b, n - 1), Xor(Code(a[n]), Code(b[n])))

\* the position of the first difference of a and b, 0 if there is none
FirstDifference(a, b) ==
  IF a = b THEN 0
  ELSE CHOOSE i \in 1..Len(a) : a[i] # b[i] /\ \A j \in 1..(i - 1) : a[j] = b[j]

\* C15: for signatures of equal length n the loop makes exactly n rounds,
\* wherever the first difference is, and the verdict is the mismatch exactly
\* when the OR of the XORs of all n byte pairs is not zero.
C15_LoopRunsToTheEnd ==
  (Checked /\ signer # NilSigner /\ signer.err = nil
     /\ Len(preq.signatureToVerify) = Len(signer.out))
  => /\ \E i \in 1..Len(calls) :
          calls[i].op = "loop" /\ calls[i].arg = <<Len(signer.out)>>
     /\ invalidSignature =
          IF Accumulated(signer.out, preq.signatureToVerify, Len(signer.out)) # 0
          THEN errSignatureMismatch
          ELSE nil

C15_Witness ==
  /\ Checked
  /\ signer # NilSigner
  /\ signer.err = nil
  /\ Len(signer.out) = MaxSigLen
  /\ Len(preq.signatureToVerify) = MaxSigLen
  /\ FirstDifference(signer.out, preq.signatureToVerify) = 1
  /\ calls[Len(calls)] = Op("loop", MaxSigLen)
  /\ invalidSignature = errSignatureMismatch

\* C16: in a constructed providerRequest the signature parameter is not in
\* the parameter map, its value is the signature to verify, every other
\* merged parameter is kept as it was, and the map the signature base is
\* computed from is that map.
C16_SignatureSetApart ==
  Constructed
  => /\ oauthSignatureParam \notin DOMAIN preq.oauthParams
     /\ preq.signatureToVerify = merged.params[oauthSignatureParam]
     /\ DOMAIN preq.oauthParams = DOMAIN merged.params \ {oauthSignatureParam}
     /\ \A k \in DOMAIN preq.oauthParams : preq.oauthParams[k] = merged.params[k]
     /\ \A i \in 1..Len(calls) :
          calls[i].op = "signatureBase"
          => /\ calls[i].arg = <<preq.oauthParams>>
             /\ oauthSignatureParam \notin DOMAIN calls[i].arg[1]

C16_Witness ==
  /\ pc = "done"
  /\ Constructed
  /\ Called("signatureBase")
  /\ "2" \in DOMAIN preq.oauthParams
  /\ preq.signatureToVerify = <<"a", "b">>
  /\ Cardinality(DOMAIN preq.oauthParams) = 5

DecimalDigits == {"0", "1", "2", "3", "4", "5", "6", "7", "8", "9"}

\* the value without its sign
Unsigned(ts) == IF ts # <<>> /\ ts[1] \in {"+", "-"} THEN Tail(ts) ELSE ts

\* the value is a base-10 integer: an optional sign, then digits
DecimalInteger(ts) ==
  Unsigned(ts) # <<>> /\ \A i \in 1..Len(Unsigned(ts)) : Unsigned(ts)[i] \in DecimalDigits

\* the integer is below zero
BelowZero(ts) == ts[1] = "-" /\ StripZeros(Unsigned(ts)) # <<"0">>

\* the integer is in -2^63 .. 2^63 - 1
FitsInt64(ts) ==
  /\ DecimalInteger(ts)
  /\ ~DigitsLess(IF ts[1] = "-" THEN Successor(TwoTo63Minus1) ELSE TwoTo63Minus1,
                 StripZeros(Unsigned(ts)))

\* the integer is in 1 .. 2^63 - 1
InTimestampRange(ts) ==
  FitsInt64(ts) /\ ~BelowZero(ts) /\ StripZeros(Unsigned(ts)) # <<"0">>

\* the error for a timestamp outside 1 .. 2^63 - 1
TimestampError(ts) ==
  IF ~DecimalInteger(ts)
  THEN Errorf("unable to parse timestamp: strconv.ParseInt: parsing \"" \o Str(ts)
                \o "\": invalid syntax")
  ELSE IF ~FitsInt64(ts)
  THEN Errorf("unable to parse timestamp: strconv.ParseInt: parsing \"" \o Str(ts)
                \o "\": value out of range")
  ELSE Errorf("invalid timestamp " \o (IF BelowZero(ts) THEN "-" ELSE "")
                \o Str(StripZeros(Unsigned(ts))))

\* the version parameter is present and is not the supported version
WrongVersion(params) ==
  oauthVersionParam \in DOMAIN params /\ params[oauthVersionParam] # <<"1", ".", "0">>

\* C17: once the mandatory parameters are there and oauth_token is not, the
\* timestamp passes if and only if it is a base-10 integer in 1 .. 2^63 - 1;
\* one that is no int64 gives "unable to parse timestamp", an int64 that is
\* not positive gives "invalid timestamp".
C17_TimestampRange ==
  (pc # "start" /\ Merged /\ MissingOf(merged.params) = <<>>
     /\ oauthTokenParam \notin DOMAIN merged.params)
  => LET ts == merged.params[oauthTimestampParam]
     IN IF InTimestampRange(ts)
        THEN \/ /\ Constructed
                /\ preq.timestamp = [neg |-> FALSE, mag |-> StripZeros(Unsigned(ts))]
             \/ pc = "done" /\ WrongVersion(merged.params) /\ ret # TimestampError(ts)
        ELSE pc = "done" /\ ~Constructed /\ ret = TimestampError(ts)

C17_Witness ==
  /\ Constructed
  /\ merged.params[oauthTimestampParam] = TwoTo63Minus1
  /\ preq.timestamp.mag = TwoTo63Minus1
  /\ Called("ValidateNonce")

\* the places of the calls of ValidateNonce in the call record
NonceCalls == {i \in 1..Len(calls) : calls[i].op = "ValidateNonce"}

\* C18: ValidateNonce is called at most once in a call, never before the
\* providerRequest is built, exactly once after it is, with the client key,
\* the nonce and the parsed timestamp of the request; its error is what the
\* call returns.
C18_NonceCheckedOnce ==
  /\ Cardinality(NonceCalls) <= 1
  /\ ~Constructed => NonceCalls = {}
  /\ (Constructed /\ pc # "validateNonce")
     => /\ Cardinality(NonceCalls) = 1
        /\ \A i \in NonceCalls :
             calls[i].arg = << <<merged.params[oauthConsumerKeyParam],
                                 merged.params[oauthNonceParam],
                                 ParseInt(merged.params[oauthTimestampParam]).value>> >>
  /\ nonceErr # nil => (pc = "done" /\ ret = nonceErr)

C18_Witness ==
  /\ pc = "done"
  /\ Constructed
  /\ Cardinality(NonceCalls) = 1
  /\ calls[2].arg = << << <<"c", "k">>, <<"n">>, [neg |-> FALSE, mag |-> <<"1", "1">>] >> >>
  /\ nonceErr = errNonceUsed
  /\ ret = errNonceUsed

\* the checks made before the version is looked at pass
BeforeVersionPass(params) ==
  /\ MissingOf(params) = <<>>
  /\ oauthTokenParam \notin DOMAIN params
  /\ InTimestampRange(params[oauthTimestampParam])

\* C19: a version parameter that is not the supported version makes the
\* construction fail, with "incorrect oauth version" when nothing before it
\* fails, and no collaborator is invoked; a request without version
\* parameter, or with the supported one, is constructed when the other
\* checks pass.
C19_VersionChecked ==
  (pc # "start" /\ Merged)
  => IF WrongVersion(merged.params)
     THEN /\ pc = "done"
          /\ ret # nil
          /\ ~Constructed
          /\ NoCollaboratorCalled
          /\ BeforeVersionPass(merged.params)
             => ret = Errorf("incorrect oauth version "
                               \o Str(merged.params[oauthVersionParam]))
     ELSE BeforeVersionPass(merged.params) => Constructed

C19_Witness ==
  /\ pc = "done"
  /\ Merged
  /\ BeforeVersionPass(merged.params)
  /\ merged.params[oauthVersionParam] = <<"2", ".", "0">>
  /\ ret = Errorf("incorrect oauth version 2.0")
  /\ NoCollaboratorCalled

\* the error of the first check, in the order missing parameters, token,
\* timestamp, version, that the parameters fail; nil if they fail none
FirstViolation(params) ==
  IF MissingOf(params) # <<>>
  THEN Errorf("missing required oauth params " \o Join(MissingOf(params)))
  ELSE IF oauthTokenParam \in DOMAIN params
  THEN errTokenNotImplemented
  ELSE IF ~InTimestampRange(params[oauthTimestampParam])
  THEN TimestampError(params[oauthTimestampParam])
  ELSE IF WrongVersion(params)
  THEN Errorf("incorrect oauth version " \o Str(params[oauthVersionParam]))
  ELSE nil

\* C20: the checks on the merged parameters report the error of the first
\* failing check in the order missing parameters, token, timestamp not
\* parseable, timestamp not positive, version; what later checks would find
\* changes nothing.
C20_FirstViolationReported ==
  (pc # "start" /\ Merged)
  => IF FirstViolation(merged.params) # nil
     THEN pc = "done" /\ ~Constructed /\ ret = FirstViolation(merged.params)
     ELSE Constructed

C20_Witness ==
  /\ pc = "done"
  /\ Merged
  /\ MissingOf(merged.params) = <<oauthNonceParam>>
  /\ oauthTokenParam \in DOMAIN merged.params
  /\ ~DecimalInteger(merged.params[oauthTimestampParam])
  /\ WrongVersion(merged.params)
  /\ ret = Errorf("missing required oauth params oauth_nonce")

====
